---- MODULE Spec2Model ----
(***************************************************************************)
(* ok-err: Result values (Ok / Err), their combinators, annotate and the   *)
(* universal adapter result().                                             *)
(*                                                                         *)
(* Two builds of the library are modelled:                                 *)
(*   "class"  src/src/index.ts      Ok / Err classes with methods          *)
(*   "plain"  src/unnamed/part_002  two-field records and free functions   *)
(*                                                                         *)
(* JavaScript values are tagged records ([k |-> kind, ...]); objects live  *)
(* in a heap (a sequence, allocation appends) and are referred to by       *)
(* index, so that object identity ("returns this") can be told from        *)
(* structural equality.                                                    *)
(***************************************************************************)
EXTENDS Integers, Sequences, FiniteSets, TLC

VARIABLES build, heap, cur, last, src, prom, resolved, jobs, hist

vars == <<build, heap, cur, last, src, prom, resolved, jobs, hist>>

\* The state of one pending call result(promise): the operand, the three
\* promises of the chain, the resolving functions' flag, the microtasks.
asyncVars == <<src, prom, resolved, jobs>>

(* ------------------------------------------------------------------ *)
(* Bounds                                                              *)
(* ------------------------------------------------------------------ *)

\* Result objects allocated in one run.
MaxHeap == 3

\* Calls of the resolving functions a (misbehaving) thenable makes.
MaxSignals == 2

\* map / flatMap steps of one pipeline.
MaxSteps == 3

\* Results in a list whose sequences are concatenated.
MaxList == 2

(* ------------------------------------------------------------------ *)
(* JavaScript values                                                   *)
(* ------------------------------------------------------------------ *)

U == [k |-> "undefined"]
NUL == [k |-> "null"]
B(b) == [k |-> "boolean", b |-> b]
N(n) == [k |-> "number", n |-> n]
S(s) == [k |-> "string", s |-> s]
\* A plain object literal: f maps its own keys to values.
O(f) == [k |-> "object", f |-> f]
\* An Error instance (new Error(m)); its message is not an enumerable key.
E(m) == [k |-> "error", m |-> m]
\* A reference to the heap object at index i (a Result).
Ref(i) == [k |-> "ref", id |-> i]
\* An array literal with the given items.
A(items) == [k |-> "array", items |-> items]

EmptyObj == [x \in {} |-> U]

\* The ReferenceError raised by evaluating an identifier with no binding.
ReferenceError(name) == E("ReferenceError: " \o name \o " is not defined")

\* ToBoolean, as used by ?: and if.
Truthy(v) ==
    CASE v.k = "undefined" -> FALSE
      [] v.k = "null" -> FALSE
      [] v.k = "boolean" -> v.b
      [] v.k = "number" -> v.n # 0
      [] v.k = "string" -> v.s # ""
      [] OTHER -> TRUE

\* The own enumerable keys an object spread copies ({...v}); a non-object
\* primitive contributes none.
Fields(v) == IF v.k = "object" THEN v.f ELSE EmptyObj

\* { ...a, ...b }: later keys win.
Spread(a, b) == [x \in (DOMAIN a) \cup (DOMAIN b) |-> IF x \in DOMAIN b THEN b[x] ELSE a[x]]

\* A property read o.key on a field map: undefined when the key is absent.
Get(f, key) == IF key \in DOMAIN f THEN f[key] ELSE U

(* ------------------------------------------------------------------ *)
(* Heap objects and outcomes of calls                                  *)
(* ------------------------------------------------------------------ *)

\* A heap object: cls names its prototype ("Ok" and "Err" carry the
\* methods, "Object" is a bare record), f its own properties.
Obj(cls, f) == [cls |-> cls, f |-> f]

\* The outcome of a call: the heap after it, whether it returned or threw,
\* the value returned or thrown, and the callback invocations it made.
Ret(h, v, calls) == [heap |-> h, kind |-> "return", val |-> v, calls |-> calls]
Throw(h, x, calls) == [heap |-> h, kind |-> "throw", val |-> x, calls |-> calls]

\* Allocation: the new object is appended and a reference to it returned.
Alloc(h, o, calls) == Ret(Append(h, o), Ref(Len(h) + 1), calls)

\* The own properties of the object a value denotes (none for primitives).
Props(h, v) ==
    IF v.k = "ref" THEN h[v.id].f
    ELSE IF v.k = "thenable" THEN v.f
    ELSE IF v.k = "function" /\ "f" \in DOMAIN v THEN v.f
    ELSE Fields(v)

\* typeof v === "object" (true of null as well)
TypeofObject(v) == v.k \in {"object", "ref", "null", "error", "promise", "thenable"}

(* ------------------------------------------------------------------ *)
(* Constructors                                                        *)
(* ------------------------------------------------------------------ *)

\* class Ok: readonly ok = true; constructor(public readonly value)
Ok(value) == Obj("Ok", [ok |-> B(TRUE), value |-> value])

\* class Err: readonly ok = false; constructor(public readonly error)
Err(error) == Obj("Err", [ok |-> B(FALSE), error |-> error])

\* index.ts: export const ok = (value) => new Ok(value)
ok(h, value) == Alloc(h, Ok(value), <<>>)

\* index.ts: err(type)(payload = {}) => new Err({ type, ...payload })
err(h, type, payload) ==
    LET p == IF payload.k = "undefined" THEN EmptyObj ELSE Fields(payload)
    IN Alloc(h, Err(O(Spread([type |-> S(type)], p))), <<>>)

\* index.ts: export const errAny = (e) => new Err(e)
errAny(h, e) == Alloc(h, Err(e), <<>>)

\* part_002: function ok(value?) { return { ok: true, value } }
plain_ok(h, value) == Alloc(h, Obj("Object", [ok |-> B(TRUE), value |-> value]), <<>>)

\* part_002: function err(typeOrPayload, payload?)
plain_err(h, typeOrPayload, payload) ==
    IF Truthy(payload)
    THEN Alloc(h, Obj("Object", [ok |-> B(FALSE),
                   error |-> O(Spread([type |-> typeOrPayload], Fields(payload)))]), <<>>)
    ELSE Alloc(h, Obj("Object", [ok |-> B(FALSE), error |-> typeOrPayload]), <<>>)

\* part_002 calls errAny (lines 89, 140, 146) but neither declares nor
\* imports it: evaluating the callee raises a ReferenceError before any
\* argument is evaluated.
plain_errAny(h) == Throw(h, ReferenceError("errAny"), <<>>)

(* ------------------------------------------------------------------ *)
(* Callbacks supplied by the caller                                    *)
(* ------------------------------------------------------------------ *)

\* Value callbacks (for map / mapErr), as in the tests:
\*   "tag"   (e) => ({ ...e, tag: "X" })
\*   "void"  () => undefined
\*   "boom"  () => { throw new Error("boom") }
ValueCallbacks == {"tag", "void", "boom"}

\* Result-returning callbacks (for flatMap), as div in the tests:
\*   "okOf"  (v) => ok(v)
\*   "fail"  () => err("Div0")()      (plain build: err("Div0"))
\*   "boom"  () => { throw new Error("boom") }
ResultCallbacks == {"okOf", "fail", "boom"}

\* One invocation fn(arg) on heap h; the outcome records the invocation.
Invoke(b, fn, h, arg) ==
    LET c == CASE fn = "tag" -> Ret(h, O(Spread(Fields(arg), [tag |-> S("X")])), <<>>)
               [] fn = "void" -> Ret(h, U, <<>>)
               [] fn = "okOf" -> IF b = "class" THEN ok(h, arg) ELSE plain_ok(h, arg)
               [] fn = "fail" -> IF b = "class" THEN err(h, "Div0", U)
                                                ELSE plain_err(h, S("Div0"), U)
               [] OTHER -> Throw(h, E("boom"), <<>>)
    IN [c EXCEPT !.calls = <<[fn |-> fn, arg |-> arg, kind |-> c.kind, val |-> c.val]>>]

(* ------------------------------------------------------------------ *)
(* Methods of Ok and Err (src/src/index.ts)                            *)
(* ------------------------------------------------------------------ *)

\* Mutant of Ok_map: the callback is forgotten, return new Ok(this.value).
Ok_map_forgets(h, self, fn) == Alloc(h, Ok(h[self].f.value), <<>>)

\* Mutant of Ok_map: the value is replaced in place, this.value =
\* fn(this.value); return this.
Ok_map_in_place(h, self, fn) ==
    LET c == Invoke("class", fn, h, h[self].f.value)
    IN IF c.kind = "throw" THEN c
       ELSE Ret([c.heap EXCEPT ![self] = Ok(c.val)], Ref(self), c.calls)

\* map(fn) { return new Ok(fn(this.value)) }
Ok_map(h, self, fn) ==
    LET c == Invoke("class", fn, h, h[self].f.value)
    IN IF c.kind = "throw" THEN c ELSE Alloc(c.heap, Ok(c.val), c.calls)

\* map(_fn) { return this }
Err_map(h, self, fn) == Ret(h, Ref(self), <<>>)

\* mapErr(_fn) { return this }
Ok_mapErr(h, self, fn) == Ret(h, Ref(self), <<>>)

\* mapErr(fn) { return new Err(fn(this.error)) }
Err_mapErr(h, self, fn) ==
    LET c == Invoke("class", fn, h, h[self].f.error)
    IN IF c.kind = "throw" THEN c ELSE Alloc(c.heap, Err(c.val), c.calls)

\* Mutant of Ok_flatMap: the callback's Result is wrapped, as map would.
Ok_flatMap_wraps(h, self, fn) ==
    LET c == Invoke("class", fn, h, h[self].f.value)
    IN IF c.kind = "throw" THEN c ELSE Alloc(c.heap, Ok(c.val), c.calls)

\* flatMap(fn) { return fn(this.value) }
Ok_flatMap(h, self, fn) == Invoke("class", fn, h, h[self].f.value)

\* Mutant of Err_flatMap: an equal Failure is built, return new Err(this.error).
Err_flatMap_copies(h, self, fn) == Alloc(h, Err(h[self].f.error), <<>>)

\* flatMap(_fn) { return this }
Err_flatMap(h, self, fn) == Ret(h, Ref(self), <<>>)

\* unwrap() { return this.value }
Ok_unwrap(h, self) == Ret(h, h[self].f.value, <<>>)

\* Mutant of Err_unwrap: a synthetic wrapper is thrown instead of the error.
Err_unwrap_wraps(h, self) == Throw(h, E("unwrap called on Err"), <<>>)

\* unwrap(): never { throw this.error }
Err_unwrap(h, self) == Throw(h, h[self].f.error, <<>>)

\* Mutant of Ok_or: the choice is made on the value, this.value || fallback.
Ok_or_falsy(h, self, fallback) ==
    Ret(h, IF Truthy(h[self].f.value) THEN h[self].f.value ELSE fallback, <<>>)

\* or(_fallback) { return this.value }
Ok_or(h, self, fallback) == Ret(h, h[self].f.value, <<>>)

\* Mutant of Err_or: the error is thrown, as unwrap does.
Err_or_throws(h, self, fallback) == Throw(h, h[self].f.error, <<>>)

\* or(fallback) { return fallback }
Err_or(h, self, fallback) == Ret(h, fallback, <<>>)

\* Mutant of Err_annotate: the payload is spread last, over cause.
Err_annotate_payload_last(h, self, type, payload) ==
    LET p == IF payload.k = "undefined" THEN EmptyObj ELSE Fields(payload)
    IN Alloc(h, Err(O(Spread(Spread([type |-> S(type)], [cause |-> h[self].f.error]), p))), <<>>)

\* Mutant of Err_annotate: the new error takes the place of the old one
\* in the chain, cause: this.error.cause.
Err_annotate_replaces(h, self, type, payload) ==
    LET p == IF payload.k = "undefined" THEN EmptyObj ELSE Fields(payload)
    IN Alloc(h, Err(O(Spread(Spread([type |-> S(type)], p),
                             [cause |-> Get(Fields(h[self].f.error), "cause")]))), <<>>)

\* annotate(type, payload = {}) { return new Err({ type, ...payload, cause: this.error }) }
Err_annotate(h, self, type, payload) ==
    LET p == IF payload.k = "undefined" THEN EmptyObj ELSE Fields(payload)
    IN Alloc(h, Err(O(Spread(Spread([type |-> S(type)], p), [cause |-> h[self].f.error]))), <<>>)

(* ------------------------------------------------------------------ *)
(* Free functions (src/unnamed/part_002)                               *)
(* ------------------------------------------------------------------ *)

\* map = (r, fn) => (r.ok ? ok(fn(r.value)) : r)
map(h, r, fn) ==
    IF Truthy(Get(Props(h, r), "ok"))
    THEN LET c == Invoke("plain", fn, h, Get(Props(h, r), "value"))
         IN IF c.kind = "throw" THEN c
            ELSE [plain_ok(c.heap, c.val) EXCEPT !.calls = c.calls]
    ELSE Ret(h, r, <<>>)

\* mapErr = (r, fn) => (r.ok ? r : errAny(fn(r.error)))
mapErr(h, r, fn) ==
    IF Truthy(Get(Props(h, r), "ok")) THEN Ret(h, r, <<>>) ELSE plain_errAny(h)

\* flatMap = (r, fn) => (r.ok ? fn(r.value) : r)
flatMap(h, r, fn) ==
    IF Truthy(Get(Props(h, r), "ok"))
    THEN Invoke("plain", fn, h, Get(Props(h, r), "value"))
    ELSE Ret(h, r, <<>>)

\* unwrap = (r) => { if (r.ok) return r.value; throw r.error }
unwrap(h, r) ==
    IF Truthy(Get(Props(h, r), "ok"))
    THEN Ret(h, Get(Props(h, r), "value"), <<>>)
    ELSE Throw(h, Get(Props(h, r), "error"), <<>>)

\* orElse = (r, fallback) => (r.ok ? r.value : fallback)
orElse(h, r, fallback) ==
    IF Truthy(Get(Props(h, r), "ok"))
    THEN Ret(h, Get(Props(h, r), "value"), <<>>)
    ELSE Ret(h, fallback, <<>>)

\* annotate = (r, type, payload = {}) => ({ ok: false, error: { type, ...payload, cause: r.error } })
annotate(h, r, type, payload) ==
    LET p == IF payload.k = "undefined" THEN EmptyObj ELSE Fields(payload)
    IN Alloc(h, Obj("Object", [ok |-> B(FALSE),
              error |-> O(Spread(Spread([type |-> S(type)], p),
                                 [cause |-> Get(Props(h, r), "error")]))]), <<>>)

(* ------------------------------------------------------------------ *)
(* The universal adapter result(), synchronous branches                *)
(* ------------------------------------------------------------------ *)

\* A zero-argument callable handed to result():
\*   "ret1"     () => 1
\*   "retU"     () => undefined
\*   "throwErr" () => { throw new Error("boom") }
\*   "throwStr" () => { throw "x" }
\*   "retPromise" () => new Promise(() => {})
F(name) == [k |-> "function", name |-> name]

Callables == {F("ret1"), F("retU"), F("throwErr"), F("throwStr")}

\* A function object that has own properties f beside being callable
\* (Object.assign(() => 1, f)).
FWith(name, f) == [k |-> "function", name |-> name, f |-> f]

\* A native Promise in a given state.
NativePromise(state, val) == [k |-> "promise", state |-> state, val |-> val]

\* key in v: own properties, and the then / catch of Promise.prototype.
In(h, v, key) ==
    \/ key \in DOMAIN Props(h, v)
    \/ v.k \in {"promise", "thenable"} /\ key = "then"

\* isPromiseLike = (v) => typeof v === "object" && v !== null && "then" in v
isPromiseLike(h, v) == TypeofObject(v) /\ v.k # "null" /\ In(h, v, "then")

\* The call work() inside the try block: a non-callable raises a TypeError.
CallWork(h, work) ==
    LET c == CASE work.k # "function" -> Throw(h, E("TypeError: work is not a function"), <<>>)
               [] work.name = "ret1" -> Ret(h, N(1), <<>>)
               [] work.name = "retU" -> Ret(h, U, <<>>)
               [] work.name = "throwErr" -> Throw(h, E("boom"), <<>>)
               [] work.name = "retPromise" -> Ret(h, NativePromise("pending", U), <<>>)
               [] OTHER -> Throw(h, S("x"), <<>>)
    IN [c EXCEPT !.calls = <<[fn |-> "work", arg |-> U, kind |-> c.kind, val |-> c.val]>>]

\* index.ts 346: typeof work === "object" && work !== null && "ok" in work
IsResultShaped(h, work) == TypeofObject(work) /\ work.k # "null" /\ In(h, work, "ok")

\* Mutant of Rehydrate: the record's own fields are kept as they are and
\* only the prototype is attached.
Rehydrate_keeps_fields(h, work) ==
    Alloc(h, Obj(IF Truthy(Get(Props(h, work), "ok")) THEN "Ok" ELSE "Err", Props(h, work)), <<>>)

\* Mutant of Rehydrate: the record's error field is not read.
Rehydrate_drops_error(h, work) ==
    IF Truthy(Get(Props(h, work), "ok"))
    THEN Alloc(h, Ok(Get(Props(h, work), "value")), <<>>)
    ELSE Alloc(h, Err(U), <<>>)

\* index.ts 347: return work.ok ? new Ok(work.value) : new Err(work.error)
Rehydrate(h, work) ==
    IF Truthy(Get(Props(h, work), "ok"))
    THEN Alloc(h, Ok(Get(Props(h, work), "value")), <<>>)
    ELSE Alloc(h, Err(Get(Props(h, work), "error")), <<>>)

\* index.ts 358-362: try { return ok(work()) } catch (e) { return errAny(e) }
SyncFn(h, work) ==
    LET c == CallWork(h, work)
    IN IF c.kind = "return" THEN [ok(c.heap, c.val) EXCEPT !.calls = c.calls]
       ELSE [errAny(c.heap, c.val) EXCEPT !.calls = c.calls]

\* part_002 143-147: the same try / catch, with errAny unresolved
plain_SyncFn(h, work) ==
    LET c == CallWork(h, work)
    IN IF c.kind = "return" THEN [plain_ok(c.heap, c.val) EXCEPT !.calls = c.calls]
       ELSE [plain_errAny(c.heap) EXCEPT !.calls = c.calls]

\* Mutant of Classify: the promise test comes before the rehydration test.
Classify_promise_first(b, h, work) ==
    IF isPromiseLike(h, work) THEN "promise"
    ELSE IF b = "class" /\ IsResultShaped(h, work) THEN "rehydrate"
    ELSE "callable"

\* The branch result(work) takes: index.ts 346 / 351 / 358 and
\* part_002 137 / 143 (which has no rehydration branch).
Classify(b, h, work) ==
    IF b = "class" /\ IsResultShaped(h, work) THEN "rehydrate"
    ELSE IF isPromiseLike(h, work) THEN "promise"
    ELSE "callable"

\* result(work) for an operand that does not take the promise branch.
result(b, h, work) ==
    IF Classify(b, h, work) = "rehydrate" THEN Rehydrate(h, work)
    ELSE IF b = "class" THEN SyncFn(h, work)
    ELSE plain_SyncFn(h, work)

(* ------------------------------------------------------------------ *)
(* match (src/unnamed/part_002)                                        *)
(* ------------------------------------------------------------------ *)

\* What every object literal inherits from Object.prototype (the members
\* a cases object answers to without having them of its own).
ObjectPrototype ==
    [toString |-> F("Object.prototype.toString"),
     valueOf |-> F("Object.prototype.valueOf"),
     constructor |-> F("Object")]

\* The property read o[key] on an object literal with own properties f:
\* own first, then inherited, undefined otherwise.
Member(f, key) ==
    IF key \in DOMAIN f THEN f[key]
    ELSE IF key \in DOMAIN ObjectPrototype THEN ObjectPrototype[key]
    ELSE U

\* The property key a value is converted to in b[a].
ToPropertyKey(v) ==
    CASE v.k = "string" -> v.s
      [] v.k = "undefined" -> "undefined"
      [] v.k = "null" -> "null"
      [] v.k = "boolean" -> IF v.b THEN "true" ELSE "false"
      [] v.k = "number" -> ToString(v.n)
      [] v.k = "error" -> "Error: " \o v.m
      [] OTHER -> "[object Object]"

\* The call fnv.call(this, arg): a caller's callback (with one argument
\* or none), a built-in of Object.prototype, or not a function at all.
CallFunction(b, h, this, fnv, arg) ==
    CASE fnv.k # "function" -> Throw(h, E("TypeError: not a function"), <<>>)
      [] fnv.name \in ValueCallbacks -> Invoke(b, fnv.name, h, arg)
      [] fnv.name = "Object.prototype.toString" -> Ret(h, S("[object Object]"), <<>>)
      [] fnv.name = "Object.prototype.valueOf" -> Ret(h, this, <<>>)
      [] fnv.name = "Object" -> Ret(h, O(EmptyObj), <<>>)
      [] OTHER ->
           LET c == CallWork(h, fnv)
           IN [c EXCEPT !.calls = <<[fn |-> fnv.name, arg |-> arg, kind |-> c.kind, val |-> c.val]>>]

\* Mutant of match: the arms are taken the other way round.
match_swapped(h, a, b) ==
    IF TypeofObject(a) /\ Truthy(a) /\ In(h, a, "ok")
    THEN IF Truthy(Get(Props(h, a), "ok"))
         THEN CallFunction("plain", h, b, Member(b.f, "err"), Get(Props(h, a), "error"))
         ELSE CallFunction("plain", h, b, Member(b.f, "ok"), Get(Props(h, a), "value"))
    ELSE CallFunction("plain", h, b, Member(b.f, ToPropertyKey(a)), U)

\* part_002 170-175:
\*   if (typeof a === "object" && a && "ok" in a)
\*     return a.ok ? b.ok(a.value) : b.err(a.error)
\*   return b[a]()
match(h, a, b) ==
    IF TypeofObject(a) /\ Truthy(a) /\ In(h, a, "ok")
    THEN IF Truthy(Get(Props(h, a), "ok"))
         THEN CallFunction("plain", h, b, Member(b.f, "ok"), Get(Props(h, a), "value"))
         ELSE CallFunction("plain", h, b, Member(b.f, "err"), Get(Props(h, a), "error"))
    ELSE CallFunction("plain", h, b, Member(b.f, ToPropertyKey(a)), U)

(* ------------------------------------------------------------------ *)
(* Iteration                                                           *)
(* ------------------------------------------------------------------ *)

\* Ok: *[Symbol.iterator]() { yield this.value }
Ok_iterator(h, self) == <<h[self].f.value>>

\* Mutant of Err_iterator: the error is yielded.
Err_iterator_yields_error(h, self) == <<h[self].f.error>>

\* Err: *[Symbol.iterator]() { /* empty */ }
Err_iterator(h, self) == <<>>

\* [...r]: the items r's iterator yields; a record of the plain build has
\* no iterator and the spread raises.
call_spread(b, h, self) ==
    IF b = "plain" THEN Throw(h, E("TypeError: r is not iterable"), <<>>)
    ELSE IF h[self].cls = "Ok" THEN Ret(h, A(Ok_iterator(h, self)), <<>>)
    ELSE Ret(h, A(Err_iterator(h, self)), <<>>)

RECURSIVE Concat(_, _, _)
\* rs.flatMap((r) => [...r]) for the list rs of heap indices: the items
\* gathered so far, or the first spread that raised.
Concat(b, h, rs) ==
    IF rs = <<>> THEN Ret(h, A(<<>>), <<>>)
    ELSE LET c == call_spread(b, h, Head(rs))
             rest == Concat(b, h, Tail(rs))
         IN IF c.kind = "throw" THEN c
            ELSE IF rest.kind = "throw" THEN rest
            ELSE Ret(h, A(c.val.items \o rest.val.items), <<>>)

(* ------------------------------------------------------------------ *)
(* r.match(...) and r.matchType(...) on a class instance               *)
(* ------------------------------------------------------------------ *)

\* The methods class Ok (index.ts 9-98) and class Err (index.ts 106-216)
\* declare; raw is a getter, Symbol.iterator has no string name.
Ok_methods == {"map", "mapErr", "flatMap", "unwrap", "or"}
Err_methods == {"annotate", "map", "mapErr", "flatMap", "unwrap", "or"}

\* The property read r[name] on the instance at heap index self: own
\* properties, then the class, then Object.prototype.
MethodOf(h, self, name) ==
    IF name \in DOMAIN h[self].f THEN h[self].f[name]
    ELSE IF name \in (IF h[self].cls = "Ok" THEN Ok_methods ELSE Err_methods)
         THEN F(h[self].cls \o ".prototype." \o name)
    ELSE Member(EmptyObj, name)

\* The call r[name](arg) for a name the classes do not declare.
call_undeclared(h, self, name, arg) ==
    CallFunction("class", h, Ref(self), MethodOf(h, self, name), arg)

(* ------------------------------------------------------------------ *)
(* The wire shape: JSON.stringify and JSON.parse                       *)
(* ------------------------------------------------------------------ *)

\* JSON documents, as a tree of their own: null, true / false, numbers,
\* strings and objects.
JNull == [j |-> "null"]
JBool(b) == [j |-> "bool", b |-> b]
JNum(n) == [j |-> "num", n |-> n]
JStr(s) == [j |-> "str", s |-> s]
JObj(m) == [j |-> "obj", m |-> m]

\* What JSON.stringify writes no text for: undefined and functions. As a
\* property value, such a value makes stringify leave the key out.
Unwritten(v) == v.k \in {"undefined", "function"}

\* The own enumerable properties stringify walks: those of an object
\* literal or of a class instance; an Error instance, a promise and a
\* thenable's data apart, have none (message and stack are not enumerable).
Enumerable(h, v) ==
    IF v.k \in {"object", "ref", "thenable"} THEN Props(h, v) ELSE EmptyObj

RECURSIVE JSONstringify(_, _)
\* JSON.stringify(v), for a v that is written (not Unwritten).
JSONstringify(h, v) ==
    CASE v.k = "null" -> JNull
      [] v.k = "boolean" -> JBool(v.b)
      [] v.k = "number" -> JNum(v.n)
      [] v.k = "string" -> JStr(v.s)
      [] OTHER ->
           LET f == Enumerable(h, v)
               keys == {x \in DOMAIN f : ~Unwritten(f[x])}
           IN JObj([x \in keys |-> JSONstringify(h, f[x])])

RECURSIVE JSONparse(_)
\* JSON.parse(text): every object comes back as a bare object literal.
JSONparse(d) ==
    CASE d.j = "null" -> NUL
      [] d.j = "bool" -> B(d.b)
      [] d.j = "num" -> N(d.n)
      [] d.j = "str" -> S(d.s)
      [] OTHER -> O([x \in DOMAIN d.m |-> JSONparse(d.m[x])])

\* result(JSON.parse(JSON.stringify(r))) for the Result r at heap index i
RoundTrip(b, h, i) == result(b, h, JSONparse(JSONstringify(h, Ref(i))))

(* ------------------------------------------------------------------ *)
(* Call sites: r.method(...) in the class build, fn(r, ...) in the     *)
(* plain build                                                         *)
(* ------------------------------------------------------------------ *)

IsOk(h, i) == Truthy(Get(h[i].f, "ok"))

call_map(b, h, self, fn) ==
    IF b = "plain" THEN map(h, Ref(self), fn)
    ELSE IF h[self].cls = "Ok" THEN Ok_map(h, self, fn) ELSE Err_map(h, self, fn)

call_mapErr(b, h, self, fn) ==
    IF b = "plain" THEN mapErr(h, Ref(self), fn)
    ELSE IF h[self].cls = "Ok" THEN Ok_mapErr(h, self, fn) ELSE Err_mapErr(h, self, fn)

call_flatMap(b, h, self, fn) ==
    IF b = "plain" THEN flatMap(h, Ref(self), fn)
    ELSE IF h[self].cls = "Ok" THEN Ok_flatMap(h, self, fn) ELSE Err_flatMap(h, self, fn)

call_unwrap(b, h, self) ==
    IF b = "plain" THEN unwrap(h, Ref(self))
    ELSE IF h[self].cls = "Ok" THEN Ok_unwrap(h, self) ELSE Err_unwrap(h, self)

call_or(b, h, self, fallback) ==
    IF b = "plain" THEN orElse(h, Ref(self), fallback)
    ELSE IF h[self].cls = "Ok" THEN Ok_or(h, self, fallback) ELSE Err_or(h, self, fallback)

call_annotate(b, h, self, type, payload) ==
    IF b = "plain" THEN annotate(h, Ref(self), type, payload)
    ELSE Err_annotate(h, self, type, payload)

call_ok(b, h, value) == IF b = "plain" THEN plain_ok(h, value) ELSE ok(h, value)

call_err(b, h, type, payload) ==
    IF b = "plain" THEN plain_err(h, S(type), payload) ELSE err(h, type, payload)

\* Wrapping an arbitrary error value: errAny(e), or err(e) in the plain build.
call_errAny(b, h, e) == IF b = "plain" THEN plain_err(h, e, U) ELSE errAny(h, e)

(* ------------------------------------------------------------------ *)
(* Inputs                                                              *)
(* ------------------------------------------------------------------ *)

OkValues == {U, NUL, N(0), N(1)}
Types == {"A", "B"}
Payloads == {U, O([id |-> N(2)]), O([type |-> S("Z"), cause |-> S("old")])}
\* Payloads given to the typed constructor: those, and the empty one.
CtorPayloads == Payloads \cup {O(EmptyObj)}
AnyErrors == {E("boom"), S("E")}
Fallbacks == {U, N(7)}

\* The arms { ok: f, err: g } of a Result match, f and g distinct.
Arms ==
    { O([ok |-> F(p[1]), err |-> F(p[2])]) :
        p \in {q \in ValueCallbacks \X ValueCallbacks : q[1] # q[2]} }

\* Discriminant strings, and cases maps whose entries take no argument.
Discriminants == {"Timeout", "Other", "toString"}
CaseMaps ==
    { O([Timeout |-> fn]) : fn \in Callables }
      \cup { O([Timeout |-> F("ret1"), Other |-> F("retU")]) }

\* The lists of at most MaxList Results out of the n allocated.
Lists(n) == UNION {[1..m -> 1..n] : m \in 0..MaxList}

\* Cases maps of r.matchType: entries keyed by error type, taking the
\* error payload.
TypeCases == { O([A |-> F("tag")]), O([A |-> F("void"), B |-> F("tag")]) }

\* Plain records as JSON.parse hands them to result(): well-formed, with
\* both fields, with neither, and with a non-boolean ok.
RawRecords ==
    { O([ok |-> B(TRUE), value |-> N(9)]),
      O([ok |-> B(FALSE), error |-> O([type |-> S("A")])]),
      O([ok |-> B(TRUE), value |-> N(9), error |-> S("E")]),
      O([ok |-> B(FALSE)]),
      O([ok |-> N(1)]) }

(* ------------------------------------------------------------------ *)
(* The universal adapter result(), promise branch                      *)
(*   Promise.resolve(work).then(ok).catch((e) => errAny(e))            *)
(* prom[1] is Promise.resolve(work), prom[2] the promise of .then(ok), *)
(* prom[3] the promise of .catch(...): the handle result() returns.    *)
(* ------------------------------------------------------------------ *)

Pending == [state |-> "pending", val |-> U]
Settled(state, val) == [state |-> state, val |-> val]

\* A foreign thenable: an object with a then method that is handed the
\* resolving functions and may call them any number of times.
\* ThenableWith(f) has the own data properties f beside its then method.
ThenableWith(f) == [k |-> "thenable", state |-> "pending", val |-> U, f |-> f]
Thenable == ThenableWith(EmptyObj)

\* Records that carry a then member beside the ok field, as a revived
\* object with behaviour may.
ThenRecords ==
    { ThenableWith([ok |-> B(TRUE), value |-> N(9)]),
      ThenableWith([ok |-> B(FALSE), error |-> S("E")]) }

\* Callables that expose a then member, and operands that are neither
\* objects nor callable.
ThenCallables == {FWith("ret1", [then |-> F("then")])}
NonCallables == {NUL, N(5), S("s")}

SettledValues == {U, N(1)}
Reasons == {E("boom"), O([type |-> S("A")])}

PromiseLikes ==
    {NativePromise("pending", U), Thenable}
      \cup {NativePromise("fulfilled", v) : v \in SettledValues}
      \cup {NativePromise("rejected", x) : x \in Reasons}

\* Every operand result() is called with as the first call.
Operands ==
    Callables \cup RawRecords \cup ThenRecords \cup PromiseLikes
      \cup ThenCallables \cup NonCallables \cup {F("retPromise")}

\* The operand as the chain sees it: its kind, its settlement (for a
\* thenable: its first signal), whether its then was called, and the
\* signals it has sent.
Source(w) == [kind |-> IF w.k = "promise" THEN "native" ELSE "thenable",
              state |-> w.state, val |-> w.val, thenCalled |-> FALSE, signals |-> <<>>]

NoSource == [kind |-> "none", state |-> "pending", val |-> U, thenCalled |-> FALSE, signals |-> <<>>]

\* Promise.resolve(work): a native promise is returned as it is; for a
\* thenable a new promise is made and a job is queued that calls
\* work.then(resolve, reject).
PromiseResolve(w) == IF w.k = "promise" THEN Settled(w.state, w.val) ELSE Pending

\* The microtasks queued by the time result() returns: then() on a promise
\* that is already settled queues its reaction at once.
JobsAtReturn(w) ==
    IF w.k # "promise" THEN <<"thenableJob">>
    ELSE IF w.state # "pending" THEN <<"then">>
    ELSE <<>>

\* The handle as result() returns it.
HandleAtReturn(w) == Pending

\* Mutant of ResolveFn: the callbacks are attached to the thenable itself
\* (work.then(ok)...), with no Promise.resolve in between: nothing guards
\* against a second signal.
ResolveFn_unguarded(p1, already, state, val) == Settled(state, val)

\* The resolving functions of prom[1] (thenable operand): the first call
\* settles it, every later call is ignored.
ResolveFn(p1, already, state, val) == IF already THEN p1 ELSE Settled(state, val)

\* The reaction .then(ok) of prom[1]: fulfilment runs ok(value), rejection
\* is passed on. The outcome is the heap and the settlement of prom[2].
ThenReaction(b, h, p1) ==
    IF p1.state = "fulfilled"
    THEN LET c == IF b = "class" THEN ok(h, p1.val) ELSE plain_ok(h, p1.val)
         IN [heap |-> c.heap, p |-> Settled("fulfilled", c.val)]
    ELSE [heap |-> h, p |-> Settled("rejected", p1.val)]

\* Mutant of CatchHandler: the handler rethrows the reason.
CatchHandler_rethrows(b, h, e) == Throw(h, e, <<>>)

\* index.ts 354: (e) => errAny(e); part_002 140: the same, errAny unresolved
CatchHandler(b, h, e) == IF b = "class" THEN errAny(h, e) ELSE plain_errAny(h)

\* The reaction .catch(handler) of prom[2]: fulfilment is passed on,
\* rejection runs the handler; a handler that throws rejects prom[3].
CatchReaction(b, h, p2) ==
    IF p2.state = "fulfilled" THEN [heap |-> h, p |-> p2]
    ELSE LET c == CatchHandler(b, h, p2.val)
         IN [heap |-> c.heap,
             p |-> Settled(IF c.kind = "return" THEN "fulfilled" ELSE "rejected", c.val)]

(* ------------------------------------------------------------------ *)
(* The state machine of synchronous use                                *)
(*                                                                     *)
(* The caller obtains one Result from a constructor or from result(),  *)
(* holds it in r (cur is its heap index) and then applies operations   *)
(* to r; an operation that returns a Result assigns it to r, as in     *)
(*   r = ok(v); r = r.map(f); r = r.flatMap(g); r.or(fb)               *)
(* Every object allocated on the way stays in the heap.                *)
(* ------------------------------------------------------------------ *)

\* The run of calls being followed (a pipeline of map / flatMap steps on
\* a Failure, or a run of annotate calls): the heap index of the Result it
\* began on and that Result as it was then, the operations applied since,
\* the number of callback invocations they made, and the error that was
\* current before each annotate call.
NoHist == [start |-> 0, r |-> Obj("Object", EmptyObj), ops |-> <<>>, calls |-> 0, errs |-> <<>>]

NoCall == [op |-> "none", self |-> 0, fn |-> "", type |-> "", arg |-> U,
           kind |-> "none", val |-> U, calls |-> <<>>, pre |-> 0]

Init ==
    /\ build \in {"class", "plain"}
    /\ heap = <<>>
    /\ cur = 0
    /\ last = NoCall
    /\ src = NoSource
    /\ prom = <<Pending, Pending, Pending>>
    /\ resolved = FALSE
    /\ jobs = <<>>
    /\ hist = NoHist

\* The call ends with outcome c: what it allocated stays, and a returned
\* Result becomes r.
FinishCall(op, fn, type, arg, c) ==
    /\ Len(c.heap) <= MaxHeap
    /\ heap' = c.heap
    /\ cur' = IF c.kind = "return" /\ c.val.k = "ref" THEN c.val.id ELSE cur
    /\ last' = [op |-> op, self |-> cur, fn |-> fn, type |-> type, arg |-> arg,
                kind |-> c.kind, val |-> c.val, calls |-> c.calls, pre |-> Len(heap)]
    /\ UNCHANGED <<build, asyncVars>>

\* A call outside a followed run of calls.
Finish(op, fn, type, arg, c) ==
    /\ FinishCall(op, fn, type, arg, c)
    /\ UNCHANGED hist

NewOk == \E v \in OkValues :
    /\ cur = 0
    /\ Finish("ok", "", "", v, call_ok(build, heap, v))

NewErr == \E t \in Types, p \in CtorPayloads :
    /\ cur = 0
    /\ Finish("err", "", t, p, call_err(build, heap, t, p))

NewErrAny == \E e \in AnyErrors :
    /\ cur = 0
    /\ Finish("errAny", "", "", e, call_errAny(build, heap, e))

DoMap == \E fn \in ValueCallbacks :
    /\ cur # 0
    /\ Finish("map", fn, "", U, call_map(build, heap, cur, fn))

DoMapErr == \E fn \in ValueCallbacks :
    /\ cur # 0
    /\ Finish("mapErr", fn, "", U, call_mapErr(build, heap, cur, fn))

DoFlatMap == \E fn \in ResultCallbacks :
    /\ cur # 0
    /\ Finish("flatMap", fn, "", U, call_flatMap(build, heap, cur, fn))

DoUnwrap ==
    /\ cur # 0
    /\ Finish("unwrap", "", "", U, call_unwrap(build, heap, cur))

DoOr == \E fb \in Fallbacks :
    /\ cur # 0
    /\ Finish("or", "", "", fb, call_or(build, heap, cur, fb))

\* annotate is offered on a Failure only (Err.annotate; annotate(r: Err, ...)).
DoAnnotate == \E t \in Types, p \in Payloads :
    /\ cur # 0
    /\ ~IsOk(heap, cur)
    /\ Finish("annotate", "", t, p, call_annotate(build, heap, cur, t, p))

\* result(work) on a callable or on a plain record, as the first call.
DoResult == \E w \in Operands :
    /\ cur = 0
    /\ Classify(build, heap, w) # "promise"
    /\ Finish("result", "", "", w, result(build, heap, w))

\* result(r) on the live Result held.
DoResultLive ==
    /\ cur # 0
    /\ Classify(build, heap, Ref(cur)) # "promise"
    /\ Finish("result", "", "", Ref(cur), result(build, heap, Ref(cur)))

\* The Result held is written out, read back and handed to result().
DoRoundTrip ==
    /\ cur # 0
    /\ Finish("roundTrip", "", "", JSONparse(JSONstringify(heap, Ref(cur))),
              RoundTrip(build, heap, cur))

\* match(r, { ok, err }) on the Result held (free-function build).
DoMatch == \E arms \in Arms :
    /\ build = "plain"
    /\ cur # 0
    /\ Finish("match", "", "", arms, match(heap, Ref(cur), arms))

\* match(d, cases) on a discriminant string (free-function build); arg
\* records the two arguments under the parameter names of match.
DoMatchType == \E d \in Discriminants, cases \in CaseMaps :
    /\ build = "plain"
    /\ cur = 0
    /\ Finish("matchType", "", "", O([a |-> S(d), b |-> cases]), match(heap, S(d), cases))

\* r.match({ ok, err }) on the Result held (class build).
DoMatchMethod == \E arms \in Arms :
    /\ build = "class"
    /\ cur # 0
    /\ Finish("r.match", "", "", arms, call_undeclared(heap, cur, "match", arms))

\* r.matchType(cases) on the Failure held (class build).
DoMatchTypeMethod == \E cases \in TypeCases :
    /\ build = "class"
    /\ cur # 0
    /\ ~IsOk(heap, cur)
    /\ Finish("r.matchType", "", "", cases, call_undeclared(heap, cur, "matchType", cases))

\* [...r] on the Result held.
DoSpread ==
    /\ cur # 0
    /\ Finish("spread", "", "", U, call_spread(build, heap, cur))

\* The sequences of a list of the Results allocated so far, concatenated.
DoCollect == \E rs \in Lists(Len(heap)) :
    /\ cur # 0
    /\ Finish("collect", "", "", A([n \in 1..Len(rs) |-> Ref(rs[n])]), Concat(build, heap, rs))

Next ==
    \/ NewOk
    \/ NewErr
    \/ NewErrAny
    \/ DoMap
    \/ DoMapErr
    \/ DoFlatMap
    \/ DoUnwrap
    \/ DoOr
    \/ DoAnnotate
    \/ DoResult
    \/ DoResultLive
    \/ DoRoundTrip

Spec == Init /\ [][Next]_vars

\* Every operation on a Result: the combinators, annotate and result()
\* of Spec, with iteration and match beside them.
OpsNext ==
    \/ Next
    \/ DoSpread
    \/ DoMatch

OpsSpec == Init /\ [][OpsNext]_vars

\* Reading Results: the caller builds Results (a constructor or result(),
\* then flatMap steps), and matches on them or iterates them.
ViewNext ==
    \/ NewOk
    \/ NewErr
    \/ NewErrAny
    \/ DoResult
    \/ DoFlatMap
    \/ DoMatch
    \/ DoMatchType
    \/ DoMatchMethod
    \/ DoMatchTypeMethod
    \/ DoSpread
    \/ DoCollect

ViewSpec == Init /\ [][ViewNext]_vars

(* ------------------------------------------------------------------ *)
(* The state machine of one call result(promise-like)                  *)
(* ------------------------------------------------------------------ *)


\* result(w) on a promise-like: the chain is built and the pending handle
\* returned; nothing of the chain has run yet.
CallResultPromise == \E w \in Operands :
    /\ last.op = "none"
    /\ Classify(build, heap, w) = "promise"
    /\ src' = Source(w)
    /\ prom' = <<PromiseResolve(w), Pending, HandleAtReturn(w)>>
    /\ resolved' = FALSE
    /\ jobs' = JobsAtReturn(w)
    /\ last' = [op |-> "result", self |-> 0, fn |-> "", type |-> "", arg |-> w,
                kind |-> "return", val |-> [k |-> "promise", state |-> prom'[3].state, val |-> prom'[3].val],
                calls |-> <<>>, pre |-> Len(heap)]
    /\ UNCHANGED <<hist, build, heap, cur>>

\* The wrapped operation settles a native promise that was pending.
SettleNative == \E o \in ({"fulfilled"} \X SettledValues) \cup ({"rejected"} \X Reasons) :
    /\ src.kind = "native"
    /\ src.state = "pending"
    /\ src' = [src EXCEPT !.state = o[1], !.val = o[2]]
    /\ prom' = [prom EXCEPT ![1] = Settled(o[1], o[2])]
    /\ jobs' = Append(jobs, "then")
    /\ UNCHANGED <<hist, build, heap, cur, last, resolved>>

\* The thenable calls one of the resolving functions it was handed.
Signal == \E o \in ({"fulfilled"} \X SettledValues) \cup ({"rejected"} \X Reasons) :
    /\ src.kind = "thenable"
    /\ src.thenCalled
    /\ Len(src.signals) < MaxSignals
    /\ src' = [src EXCEPT !.signals = Append(@, o),
                          !.state = IF src.signals = <<>> THEN o[1] ELSE @,
                          !.val = IF src.signals = <<>> THEN o[2] ELSE @]
    /\ prom' = [prom EXCEPT ![1] = ResolveFn(prom[1], resolved, o[1], o[2])]
    /\ resolved' = TRUE
    /\ jobs' = IF prom'[1] # prom[1] THEN Append(jobs, "then") ELSE jobs
    /\ UNCHANGED <<hist, build, heap, cur, last>>

\* The host runs the microtask at the head of the queue.
RunThenableJob ==
    /\ jobs # <<>> /\ Head(jobs) = "thenableJob"
    /\ src' = [src EXCEPT !.thenCalled = TRUE]
    /\ jobs' = Tail(jobs)
    /\ UNCHANGED <<hist, build, heap, cur, last, prom, resolved>>

RunThen ==
    /\ jobs # <<>> /\ Head(jobs) = "then"
    /\ LET r == ThenReaction(build, heap, prom[1])
       IN /\ Len(r.heap) <= MaxHeap
          /\ heap' = r.heap
          /\ prom' = [prom EXCEPT ![2] = r.p]
    /\ jobs' = Append(Tail(jobs), "catch")
    /\ UNCHANGED <<hist, build, cur, last, src, resolved>>

RunCatch ==
    /\ jobs # <<>> /\ Head(jobs) = "catch"
    /\ LET r == CatchReaction(build, heap, prom[2])
       IN /\ Len(r.heap) <= MaxHeap
          /\ heap' = r.heap
          /\ prom' = [prom EXCEPT ![3] = r.p]
    /\ jobs' = Tail(jobs)
    /\ UNCHANGED <<hist, build, cur, last, src, resolved>>

RunJob == RunThenableJob \/ RunThen \/ RunCatch

AsyncNext ==
    \/ CallResultPromise
    \/ SettleNative
    \/ Signal
    \/ RunThenableJob
    \/ RunThen
    \/ RunCatch

AsyncSpec == Init /\ [][AsyncNext]_vars

\* The host's job queue runs every queued microtask; whether the wrapped
\* operation ever settles is up to it.
FairAsyncSpec == AsyncSpec /\ WF_vars(RunJob)

\* A pipeline r.map(f).flatMap(g)...or(fb): the steps are followed from
\* the first one whose receiver is a Failure.
Followed(op, c) ==
    IF hist.start # 0
    THEN [hist EXCEPT !.ops = Append(@, op), !.calls = @ + Len(c.calls)]
    ELSE IF ~IsOk(heap, cur)
    THEN [NoHist EXCEPT !.start = cur, !.r = heap[cur], !.ops = <<op>>, !.calls = Len(c.calls)]
    ELSE hist

PipeMap == \E fn \in ValueCallbacks :
    /\ cur # 0
    /\ Len(hist.ops) < MaxSteps
    /\ FinishCall("map", fn, "", U, call_map(build, heap, cur, fn))
    /\ hist' = Followed("map", call_map(build, heap, cur, fn))

PipeFlatMap == \E fn \in ResultCallbacks :
    /\ cur # 0
    /\ Len(hist.ops) < MaxSteps
    /\ FinishCall("flatMap", fn, "", U, call_flatMap(build, heap, cur, fn))
    /\ hist' = Followed("flatMap", call_flatMap(build, heap, cur, fn))

\* The pipeline's final or(fb).
PipeOr == \E fb \in Fallbacks :
    /\ cur # 0
    /\ FinishCall("or", "", "", fb, call_or(build, heap, cur, fb))
    /\ hist' = IF hist.start # 0
               THEN [hist EXCEPT !.calls = @ + Len(call_or(build, heap, cur, fb).calls)]
               ELSE hist

PipelineNext ==
    \/ NewOk
    \/ NewErr
    \/ NewErrAny
    \/ DoResult
    \/ PipeMap
    \/ PipeFlatMap
    \/ PipeOr

PipelineSpec == Init /\ [][PipelineNext]_vars

\* A run of annotate calls on a Failure: each call is recorded with the
\* error that was current before it.
ChainAnnotate == \E t \in Types, p \in Payloads :
    /\ cur # 0
    /\ ~IsOk(heap, cur)
    /\ FinishCall("annotate", "", t, p, call_annotate(build, heap, cur, t, p))
    /\ hist' = [(IF hist.start = 0
                 THEN [NoHist EXCEPT !.start = cur, !.r = heap[cur]]
                 ELSE hist)
                EXCEPT !.ops = Append(@, "annotate"),
                       !.errs = Append(@, heap[cur].f.error)]

ChainNext ==
    \/ NewErr
    \/ NewErrAny
    \/ DoResult
    \/ ChainAnnotate

ChainSpec == Init /\ [][ChainNext]_vars

\* Every branch of result() side by side: the caller's first call of
\* result() takes whichever branch the operand selects.
AdapterNext ==
    \/ DoResult
    \/ DoResultLive
    \/ CallResultPromise
    \/ SettleNative
    \/ Signal
    \/ RunThenableJob
    \/ RunThen
    \/ RunCatch

AdapterSpec == Init /\ [][AdapterNext]_vars

(* ------------------------------------------------------------------ *)
(* Reading the last call                                               *)
(* ------------------------------------------------------------------ *)

\* The receiver of the last call, and whether it is a Success.
Receiver == heap[last.self]
OnSuccess(op) == last.op = op /\ last.self # 0 /\ IsOk(heap, last.self)
OnFailure(op) == last.op = op /\ last.self # 0 /\ ~IsOk(heap, last.self)

\* The last call returned the Result it was called on, allocated nothing
\* and invoked nothing.
PassedThrough ==
    /\ last.kind = "return"
    /\ last.val = Ref(last.self)
    /\ Len(heap) = last.pre
    /\ last.calls = <<>>

\* The last call returned a reference to a Result.
ReturnedResult == last.kind = "return" /\ last.val.k = "ref"
Returned == heap[last.val.id]

(* ------------------------------------------------------------------ *)
(* C1  map                                                             *)
(* ------------------------------------------------------------------ *)

\* C1: map on a Success invokes the callback exactly once, with the
\* value, and (the callback returning y) returns a Success whose value is
\* y; map on a Failure returns a Failure with the same ok = false and the
\* same error and never invokes the callback. In both builds.
C1_Map ==
    /\ OnSuccess("map") =>
          /\ Len(last.calls) = 1
          /\ last.calls[1].fn = last.fn
          /\ last.calls[1].arg = Receiver.f.value
          /\ last.calls[1].kind = "return" =>
                /\ ReturnedResult
                /\ Returned.f.ok = B(TRUE)
                /\ Returned.f.value = last.calls[1].val
    /\ OnFailure("map") =>
          /\ last.calls = <<>>
          /\ ReturnedResult
          /\ Returned.f.ok = B(FALSE)
          /\ Returned.f.error = Receiver.f.error

\* A Success was mapped with the tagging callback in the plain build.
C1_Witness ==
    /\ OnSuccess("map")
    /\ build = "plain"
    /\ last.fn = "tag"
    /\ ReturnedResult
    /\ Returned.f.value = O([tag |-> S("X")])

(* ------------------------------------------------------------------ *)
(* C2  mapErr                                                          *)
(* ------------------------------------------------------------------ *)

\* C2: mapErr on a Failure invokes the callback exactly once, with the
\* error, and (the callback returning y) returns a Failure whose error is
\* y; mapErr on a Success returns a Success with the same value and never
\* invokes the callback. In both builds.
C2_MapErr ==
    /\ OnFailure("mapErr") =>
          /\ Len(last.calls) = 1
          /\ last.calls[1].fn = last.fn
          /\ last.calls[1].arg = Receiver.f.error
          /\ last.calls[1].kind = "return" =>
                /\ ReturnedResult
                /\ Returned.f.ok = B(FALSE)
                /\ Returned.f.error = last.calls[1].val
    /\ OnSuccess("mapErr") =>
          /\ last.calls = <<>>
          /\ ReturnedResult
          /\ Returned.f.ok = B(TRUE)
          /\ Returned.f.value = Receiver.f.value

\* The part of C2 that the class build (src/src/index.ts) meets.
C2_MapErr_ClassBuild == build = "class" => C2_MapErr

(* ------------------------------------------------------------------ *)
(* C3  flatMap                                                         *)
(* ------------------------------------------------------------------ *)

\* C3: flatMap on a Success invokes the callback exactly once, with the
\* value, and its outcome is exactly the callback's outcome: the very
\* Result the callback returned, nothing allocated around it; flatMap on
\* a Failure returns that Failure and never invokes the callback.
C3_FlatMap ==
    /\ OnSuccess("flatMap") =>
          /\ Len(last.calls) = 1
          /\ last.calls[1].fn = last.fn
          /\ last.calls[1].arg = Receiver.f.value
          /\ last.kind = last.calls[1].kind
          /\ last.val = last.calls[1].val
          /\ last.kind = "return" =>
                /\ last.val = Ref(last.pre + 1)
                /\ Len(heap) = last.pre + 1
    /\ OnFailure("flatMap") =>
          /\ PassedThrough
          /\ Returned.f.ok = B(FALSE)

\* flatMap on a Success whose callback returned a Failure.
C3_Witness ==
    /\ OnSuccess("flatMap")
    /\ last.fn = "fail"
    /\ ReturnedResult
    /\ Returned.f.ok = B(FALSE)

(* ------------------------------------------------------------------ *)
(* C4  unwrap                                                          *)
(* ------------------------------------------------------------------ *)

\* C4: unwrap on a Success returns its value and does not raise; unwrap
\* on a Failure returns nothing and raises exactly the stored error.
C4_Unwrap ==
    /\ OnSuccess("unwrap") => last.kind = "return" /\ last.val = Receiver.f.value
    /\ OnFailure("unwrap") => last.kind = "throw" /\ last.val = Receiver.f.error

\* unwrap raised the typed payload of a Failure.
C4_Witness ==
    /\ OnFailure("unwrap")
    /\ last.kind = "throw"
    /\ last.val.k = "object"
    /\ "type" \in DOMAIN last.val.f

(* ------------------------------------------------------------------ *)
(* C5  or                                                              *)
(* ------------------------------------------------------------------ *)

\* C5: or on a Success returns its value, whatever the value (undefined,
\* null, 0 included) and whatever the fallback; or on a Failure returns
\* the fallback.
C5_Or ==
    /\ OnSuccess("or") => last.kind = "return" /\ last.val = Receiver.f.value
    /\ OnFailure("or") => last.kind = "return" /\ last.val = last.arg

\* or on a Success holding a falsy value, with a truthy fallback.
C5_Witness ==
    /\ OnSuccess("or")
    /\ ~Truthy(Receiver.f.value)
    /\ Truthy(last.arg)
    /\ last.val = Receiver.f.value

(* ------------------------------------------------------------------ *)
(* C6  the variant invariant                                           *)
(* ------------------------------------------------------------------ *)

\* The shape of one Result: ok is the boolean true or false and agrees
\* with which of value / error is an own field; reading the other field
\* yields undefined.
WellFormed(o) ==
    /\ "ok" \in DOMAIN o.f
    /\ o.f.ok \in {B(TRUE), B(FALSE)}
    /\ o.f.ok = B(TRUE) <=> ("value" \in DOMAIN o.f /\ "error" \notin DOMAIN o.f)
    /\ o.f.ok = B(FALSE) <=> ("error" \in DOMAIN o.f /\ "value" \notin DOMAIN o.f)
    /\ o.f.ok = B(TRUE) => Get(o.f, "error") = U
    /\ o.f.ok = B(FALSE) => Get(o.f, "value") = U

\* C6: every Result produced by the constructors, the combinators,
\* annotate and result() (rehydration of a record carrying both or
\* neither of value / error included) has a boolean ok that agrees with
\* which one of value / error is populated.
C6_VariantInvariant == \A i \in 1..Len(heap) : WellFormed(heap[i])

\* result() rehydrated a record that carried both value and error.
C6_Witness ==
    /\ last.op = "result"
    /\ last.arg.k = "object"
    /\ {"value", "error"} \subseteq DOMAIN last.arg.f
    /\ ReturnedResult

(* ------------------------------------------------------------------ *)
(* C7  annotate                                                        *)
(* ------------------------------------------------------------------ *)

\* The fields of the payload argument of the last call (none when omitted).
PayloadFields == Fields(last.arg)

\* C7: annotate(r, t, p) on a Failure r returns a new Failure, not r,
\* whose error is { type: t, ...p, cause: r.error }: its keys are type,
\* cause and the keys of p; cause is r.error even when p has a cause key;
\* every other field of p is there with p's value; type is t unless p
\* spreads its own type over it.
C7_Annotate ==
    OnFailure("annotate") =>
        /\ ReturnedResult
        /\ last.val # Ref(last.self)
        /\ last.val.id = last.pre + 1
        /\ Returned.f.ok = B(FALSE)
        /\ "value" \notin DOMAIN Returned.f
        /\ Returned.f.error.k = "object"
        /\ LET e == Returned.f.error.f
           IN /\ DOMAIN e = {"type", "cause"} \cup DOMAIN PayloadFields
              /\ e.cause = Receiver.f.error
              /\ \A key \in DOMAIN PayloadFields \ {"cause"} : e[key] = PayloadFields[key]
              /\ "type" \notin DOMAIN PayloadFields => e.type = S(last.type)

\* annotate was called with a payload that has its own cause key.
C7_Witness ==
    /\ OnFailure("annotate")
    /\ "cause" \in DOMAIN PayloadFields
    /\ ReturnedResult
    /\ Returned.f.error.f.cause = Receiver.f.error
    /\ Returned.f.error.f.cause # PayloadFields.cause

(* ------------------------------------------------------------------ *)
(* C8  result() on a callable                                          *)
(* ------------------------------------------------------------------ *)

\* C8: result(w) on a zero-argument callable w invokes w exactly once
\* before returning; w returning x gives Success(x), w raising X gives
\* Failure(X) with X unchanged, and result itself does not raise. In both
\* builds.
C8_Callable ==
    (last.op = "result" /\ last.arg.k = "function") =>
        /\ Len(last.calls) = 1
        /\ last.calls[1].fn = "work"
        /\ last.kind = "return"
        /\ ReturnedResult
        /\ last.calls[1].kind = "return" =>
              Returned.f.ok = B(TRUE) /\ Returned.f.value = last.calls[1].val
        /\ last.calls[1].kind = "throw" =>
              Returned.f.ok = B(FALSE) /\ Returned.f.error = last.calls[1].val

\* The part of C8 that the class build (src/src/index.ts) meets.
C8_Callable_ClassBuild == build = "class" => C8_Callable

(* ------------------------------------------------------------------ *)
(* C9  result() on a promise-like: the outcome                         *)
(* ------------------------------------------------------------------ *)

Handle == prom[3]
HandleResult == heap[Handle.val.id]

\* The handle is fulfilled with Success(v) / with Failure(x), x as it was.
HandleIsSuccess(v) ==
    /\ Handle.state = "fulfilled"
    /\ Handle.val.k = "ref"
    /\ HandleResult.f.ok = B(TRUE)
    /\ HandleResult.f.value = v

HandleIsFailure(x) ==
    /\ Handle.state = "fulfilled"
    /\ Handle.val.k = "ref"
    /\ HandleResult.f.ok = B(FALSE)
    /\ HandleResult.f.error = x

\* The handle of result() in src/src/index.ts never rejects, and once
\* settled it holds Success(v) if the operand fulfilled with v and
\* Failure(x) if it rejected with x.
C9_HandleOutcome ==
    build = "class" =>
        /\ Handle.state # "rejected"
        /\ Handle.state = "fulfilled" =>
              /\ src.state = "fulfilled" => HandleIsSuccess(src.val)
              /\ src.state = "rejected" => HandleIsFailure(src.val)
              /\ src.state # "pending"

C10_HandleAfterSource ==
    /\ (last.op = "result" /\ last.val.k = "promise") => last.val.state = "pending"
    /\ Handle.state # "pending" => src.state # "pending"

\* C10: result(p) returns with the handle unsettled even if p is already
\* settled; the handle is settled only if p has settled; the handle
\* settles at most once and keeps its Result, whatever p signals later.
C10_PendingHandle ==
    /\ [](C10_HandleAfterSource)
    /\ [][Handle.state # "pending" => Handle' = Handle]_vars

\* A thenable signalled twice, differently, and the handle holds the
\* outcome of the first signal.
C10_Witness ==
    /\ src.kind = "thenable"
    /\ Len(src.signals) = 2
    /\ src.signals[1][1] # src.signals[2][1]
    /\ Handle.state = "fulfilled"
    /\ Handle.val.k = "ref"
    /\ HandleResult.f.ok = B(src.signals[1][1] = "fulfilled")

(* ------------------------------------------------------------------ *)
(* C11  result(): rehydration comes first                              *)
(* ------------------------------------------------------------------ *)

SameAfterRoundTrip ==
    /\ ReturnedResult
    /\ Returned.cls = Receiver.cls
    /\ Returned.f = Receiver.f

RECURSIVE JsonData(_)
\* Plain JSON data: null, booleans, numbers, strings, and object literals
\* whose every field is plain JSON data.
JsonData(v) ==
    \/ v.k \in {"null", "boolean", "number", "string"}
    \/ v.k = "object" /\ \A x \in DOMAIN v.f : JsonData(v.f[x])

\* What the Result r at heap index i carries (its value or its error).
Carried(h, i) == IF IsOk(h, i) THEN h[i].f.value ELSE h[i].f.error

DispatchedTo(fnv, arg) ==
    /\ Len(last.calls) = 1
    /\ last.calls[1].fn = fnv.name
    /\ last.calls[1].arg = arg
    /\ last.kind = last.calls[1].kind
    /\ last.val = last.calls[1].val

\* C13: match(r, {ok: f, err: g}) invokes f, once, with r.value and
\* returns its result when r is a Success; invokes g, once, with r.error
\* and returns its result when r is a Failure; the other arm is never
\* invoked.
C13_MatchResult ==
    /\ OnSuccess("match") => DispatchedTo(last.arg.f.ok, Receiver.f.value)
    /\ OnFailure("match") => DispatchedTo(last.arg.f.err, Receiver.f.error)

\* A Failure with a typed error was matched and the err arm's result
\* (the error, tagged) returned.
C13_Witness ==
    /\ OnFailure("match")
    /\ last.arg.f.err = F("tag")
    /\ Receiver.f.error.k = "object"
    /\ last.kind = "return"
    /\ last.val = O(Spread(Receiver.f.error.f, [tag |-> S("X")]))

(* ------------------------------------------------------------------ *)
(* C14  match on a discriminant                                        *)
(* ------------------------------------------------------------------ *)

\* C14: match(d, cases) invokes the entry keyed by d, once, and returns
\* its result when cases has an entry for d; when cases has no entry of
\* its own for d, the call raises an error, invokes nothing and returns
\* no value.
C14_MatchDiscriminant ==
    last.op = "matchType" =>
        LET d == last.arg.f.a.s
            cases == last.arg.f.b.f
        IN /\ d \in DOMAIN cases => DispatchedTo(cases[d], U)
           /\ d \notin DOMAIN cases => (last.kind = "throw" /\ last.calls = <<>>)

\* The same for the discriminants that name no member of Object.prototype.
C14_MatchDiscriminant_NotInherited ==
    (last.op = "matchType" /\ last.arg.f.a.s \notin DOMAIN ObjectPrototype) =>
        C14_MatchDiscriminant

(* ------------------------------------------------------------------ *)
(* C15  r.match and r.matchType                                        *)
(* ------------------------------------------------------------------ *)

\* C15: in the class build, r.match({ok: f, err: g}) dispatches as match
\* does (f once with r.value on a Success, g once with r.error on a
\* Failure, returning the arm's result), and on a Failure whose error has
\* type T, r.matchType(cases) with an entry for T invokes cases[T] once
\* with the whole error and returns its result.
C15_MatchMethods ==
    /\ OnSuccess("r.match") => DispatchedTo(last.arg.f.ok, Receiver.f.value)
    /\ OnFailure("r.match") => DispatchedTo(last.arg.f.err, Receiver.f.error)
    /\ (/\ OnFailure("r.matchType")
        /\ Receiver.f.error.k = "object"
        /\ Get(Receiver.f.error.f, "type").k = "string"
        /\ Get(Receiver.f.error.f, "type").s \in DOMAIN last.arg.f) =>
           DispatchedTo(last.arg.f[Get(Receiver.f.error.f, "type").s], Receiver.f.error)

(* ------------------------------------------------------------------ *)
(* C16  the sequence view                                              *)
(* ------------------------------------------------------------------ *)

\* The values of the Successes among the Results rs refers to, in order.
SuccessValues(h, rs) ==
    LET oks == SelectSeq(rs, LAMBDA r : IsOk(h, r.id))
    IN [n \in 1..Len(oks) |-> h[oks[n].id].f.value]

C17_PassThrough ==
    hist.start # 0 =>
        /\ cur = hist.start
        /\ heap[cur] = hist.r
        /\ hist.calls = 0
        /\ last.kind = "return"
        /\ last.op \in {"map", "flatMap"} => last.val = Ref(hist.start)
        /\ last.op = "or" => last.val = last.arg

\* A Failure went through map, then flatMap, then or(7).
C17_Witness ==
    /\ hist.start # 0
    /\ hist.ops = <<"map", "flatMap">>
    /\ hist.r.f.error = O([type |-> S("A"), id |-> N(2)])
    /\ last.op = "or"
    /\ last.val = N(7)

(* ------------------------------------------------------------------ *)
(* C18  the typed error constructor                                    *)
(* ------------------------------------------------------------------ *)

\* C18: for every type t and payload p (omitted, empty, with any keys, a
\* key named type included), err(t)(p) in the class build and err(t, p)
\* in the plain build return a Failure whose error is a mapping with
\* error.type = t and with the other fields of p.
C18_TypedConstructor ==
    last.op = "err" =>
        /\ ReturnedResult
        /\ Returned.f.ok = B(FALSE)
        /\ Returned.f.error.k = "object"
        /\ Get(Returned.f.error.f, "type") = S(last.type)
        /\ \A x \in DOMAIN Fields(last.arg) \ {"type"} :
               Get(Returned.f.error.f, x) = last.arg.f[x]

\* The same for the class build and payloads without a key named type.
C18_TypedConstructor_NoTypeKey ==
    (build = "class" /\ last.op = "err" /\ "type" \notin DOMAIN Fields(last.arg)) =>
        C18_TypedConstructor

(* ------------------------------------------------------------------ *)
(* C19  trace capture                                                  *)
(* ------------------------------------------------------------------ *)

\* errAny(e) wraps e as it is: the error is exactly e.
C19_ErrAnyExact ==
    (build = "class" /\ last.op = "errAny") =>
        (ReturnedResult /\ Returned.f = [ok |-> B(FALSE), error |-> last.arg])

\* C19: in the class build, the error err(type)(payload) constructs
\* carries trace information, a field beside type and the payload's
\* fields, whereas errAny(e).error is exactly e.
C19_TraceCapture ==
    /\ (build = "class" /\ last.op = "err") =>
          /\ ReturnedResult
          /\ Returned.f.error.k = "object"
          /\ DOMAIN Returned.f.error.f \ ({"type"} \cup DOMAIN Fields(last.arg)) # {}
    /\ C19_ErrAnyExact

(* ------------------------------------------------------------------ *)
(* C20  growth of the cause chain                                      *)
(* ------------------------------------------------------------------ *)

\* The error e has a cause (a cause key of its own).
HasCause(e) == e.k = "object" /\ "cause" \in DOMAIN e.f

RECURSIVE Depth(_)
\* The number of links walked from e along .cause until an error with
\* no cause is reached.
Depth(e) == IF HasCause(e) THEN 1 + Depth(e.f.cause) ELSE 0

RECURSIVE Link(_, _)
\* The i-th link from the top e (Link(e, 0) = e).
Link(e, i) == IF i = 0 THEN e ELSE Link(e.f.cause, i - 1)

\* C20: after k annotate calls on a Failure whose error has a cause chain
\* of depth d, the error held has a chain of depth d + k, the walk along
\* .cause ends at an error with no cause, and the i-th link from the top
\* is the error that was current before the (k-i+1)-th call, unchanged.
\* In both builds.
C20_CauseChain ==
    hist.errs # <<>> =>
        LET k == Len(hist.errs)
            top == heap[cur].f.error
        IN /\ Depth(top) = Depth(hist.errs[1]) + k
           /\ ~HasCause(Link(top, Depth(top)))
           /\ \A i \in 1..k : Link(top, i) = hist.errs[k - i + 1]

\* Two annotate calls on a Failure whose error already had a cause.
C20_Witness ==
    /\ Len(hist.errs) = 2
    /\ Depth(hist.errs[1]) = 1
    /\ Depth(heap[cur].f.error) = 3
    /\ Link(heap[cur].f.error, 2) = hist.errs[1]

(* ------------------------------------------------------------------ *)
(* C21  result(): operands that expose a then member                   *)
(* ------------------------------------------------------------------ *)

\* C21: result(w) on every operand that exposes a then member and has
\* no ok field, an object or a callable alike, returns a pending handle
\* and does not invoke w. In both builds.
C21_ThenBearing ==
    (/\ last.op = "result"
     /\ In(heap, last.arg, "then")
     /\ ~In(heap, last.arg, "ok")) =>
        /\ last.kind = "return"
        /\ last.val.k = "promise"
        /\ last.val.state = "pending"
        /\ last.calls = <<>>

\* The same for the operands whose typeof is "object".
C21_ThenBearing_Objects ==
    (last.op = "result" /\ TypeofObject(last.arg)) => C21_ThenBearing

(* ------------------------------------------------------------------ *)
(* C22  the frame condition                                            *)
(* ------------------------------------------------------------------ *)

\* One call leaves every Result that existed before it as it was (its ok,
\* value and error, the error payload included), and a Result it returns
\* is either newly built or, in the no-op branches (map / flatMap on a
\* Failure, mapErr on a Success), the Result it was called on.
FrameStep ==
    /\ Len(heap') >= Len(heap)
    /\ \A i \in 1..Len(heap) : heap'[i] = heap[i]
    /\ (last'.kind = "return" /\ last'.val.k = "ref") =>
          \/ last'.val.id > Len(heap)
          \/ /\ cur # 0
             /\ last'.val.id = cur
             /\ \/ last'.op \in {"map", "flatMap"} /\ ~IsOk(heap, cur)
                \/ last'.op = "mapErr" /\ IsOk(heap, cur)

\* C22: no operation (map, mapErr, flatMap, unwrap, or, iteration,
\* annotate, match, result() / rehydration) changes a field of a Result
\* that existed before the call or of its error payload; each returns a
\* newly built Result or, in the no-op branches, its input itself.
C22_Frame == [][FrameStep]_vars

\* mapErr on a Success that an earlier map had built returned that
\* Success itself, the Result mapped from still in place.
C22_Witness ==
    /\ OnSuccess("mapErr")
    /\ PassedThrough
    /\ last.self = 2
    /\ IsOk(heap, 1)
    /\ heap[2].f.value = O(Spread(Fields(heap[1].f.value), [tag |-> S("X")]))

(* ------------------------------------------------------------------ *)
(* C23  totality                                                       *)
(* ------------------------------------------------------------------ *)

\* The combinators other than unwrap.
TotalOps == {"map", "mapErr", "flatMap", "or", "spread"}

OtherBuild == IF build = "class" THEN "plain" ELSE "class"

\* The Results of heap h as build b holds them: the same fields, as
\* instances of Ok / Err in the class build, as bare records in the plain.
InStyle(b, h) ==
    [i \in 1..Len(h) |->
        Obj(IF b = "plain" THEN "Object" ELSE IF IsOk(h, i) THEN "Ok" ELSE "Err", h[i].f)]

\* result(w) in build b, whichever branch w takes: the promise branch
\* returns the pending handle.
ResultOf(b, h, w) ==
    IF Classify(b, h, w) = "promise"
    THEN Ret(h, [k |-> "promise", state |-> "pending", val |-> U], <<>>)
    ELSE result(b, h, w)

\* The call c (a record as last holds it) made in build b on heap h.
Apply(b, h, c) ==
    CASE c.op = "ok" -> call_ok(b, h, c.arg)
      [] c.op = "err" -> call_err(b, h, c.type, c.arg)
      [] c.op = "errAny" -> call_errAny(b, h, c.arg)
      [] c.op = "map" -> call_map(b, h, c.self, c.fn)
      [] c.op = "mapErr" -> call_mapErr(b, h, c.self, c.fn)
      [] c.op = "flatMap" -> call_flatMap(b, h, c.self, c.fn)
      [] c.op = "unwrap" -> call_unwrap(b, h, c.self)
      [] c.op = "or" -> call_or(b, h, c.self, c.arg)
      [] c.op = "annotate" -> call_annotate(b, h, c.self, c.type, c.arg)
      [] c.op = "roundTrip" -> RoundTrip(b, h, c.self)
      [] OTHER -> ResultOf(b, h, c.arg)

\* await result(w) for a settled native promise w: the Result the handle
\* is fulfilled with, or the reason it is rejected with.
Awaited(b, h, w) ==
    LET t == ThenReaction(b, h, Settled(w.state, w.val))
        c == CatchReaction(b, t.heap, t.p)
    IN IF c.p.state = "fulfilled" THEN Ret(c.heap, c.p.val, <<>>)
       ELSE Throw(c.heap, c.p.val, <<>>)

\* Two outcomes agree: both raise, or both return, and then equal values
\* or Results with equal ok and equal value / error.
SameOutcome(c, d) ==
    /\ c.kind = d.kind
    /\ c.kind = "return" =>
          /\ c.val.k = d.val.k
          /\ IF c.val.k = "ref"
             THEN c.heap[c.val.id].f = d.heap[d.val.id].f
             ELSE c.val = d.val

SharedOps ==
    {"ok", "err", "errAny", "map", "mapErr", "flatMap", "unwrap", "or",
     "annotate", "roundTrip", "result"}

\* The last call, made in the other build on the same Results.
LastInOtherBuild ==
    Apply(OtherBuild, InStyle(OtherBuild, SubSeq(heap, 1, last.pre)), last)

\* C24: every operation (typed error construction, map, mapErr,
\* flatMap, unwrap, or / orElse, annotate, result() on a callable, a
\* promise-like or a Result-shaped record) made in one build on Results
\* reached by any sequence of operations has, made in the other build on
\* the same Results, the same outcome: both raise or both return, with
\* equal values or with Results of equal ok and equal value / error.
C24_StyleEquivalence ==
    /\ last.op \in SharedOps =>
          SameOutcome([heap |-> heap, kind |-> last.kind, val |-> last.val], LastInOtherBuild)
    /\ \A w \in {q \in PromiseLikes : q.k = "promise" /\ q.state # "pending"} :
          SameOutcome(Awaited("class", InStyle("class", heap), w),
                      Awaited("plain", InStyle("plain", heap), w))

\* The operations on which the two builds do agree: ok, map, flatMap
\* (the callback not building a typed error without payload), unwrap,
\* or / orElse, annotate, typed error construction with a payload given,
\* and result() on a callable that returns.
C24_StyleEquivalence_Agreeing ==
    (\/ last.op \in {"ok", "map", "unwrap", "or", "annotate"}
     \/ last.op = "flatMap" /\ last.fn # "fail"
     \/ last.op = "err" /\ last.arg # U
     \/ last.op = "result" /\ last.arg.k = "function" /\ last.calls[1].kind = "return") =>
        SameOutcome([heap |-> heap, kind |-> last.kind, val |-> last.val], LastInOtherBuild)

(* ------------------------------------------------------------------ *)
(* C25  result(): the synchronous branch                               *)
(* ------------------------------------------------------------------ *)

\* C25: result(w) on every operand with no ok field that is not
\* classified as promise-like returns synchronously a Success or a
\* Failure, never raises and never returns a pending handle; a
\* non-callable w (null, a number, a string) gives a Failure carrying the
\* error of the attempt to call it, and a callable that returns a
\* promise-like gives a Success holding that promise-like. In both builds.
C25_SyncBranch ==
    (/\ last.op = "result"
     /\ ~In(heap, last.arg, "ok")
     /\ ~isPromiseLike(heap, last.arg)) =>
        /\ last.kind = "return"
        /\ ReturnedResult
        /\ Returned.f.ok \in {B(TRUE), B(FALSE)}
        /\ last.arg.k # "function" =>
              /\ Returned.f.ok = B(FALSE)
              /\ Returned.f.error.k = "error"
              /\ Returned.f.error = last.calls[1].val
        /\ (last.arg.k = "function" /\ last.calls[1].kind = "return"
                /\ isPromiseLike(heap, last.calls[1].val)) =>
              /\ Returned.f.ok = B(TRUE)
              /\ Returned.f.value = last.calls[1].val

\* The same for the class build alone.
C25_SyncBranch_ClassBuild == build = "class" => C25_SyncBranch

====
